---- MODULE Spec2Model ----
(***************************************************************************)
(* A model of server.js: the user registry kept in users.json, the         *)
(* channel-membership check, the bot handlers that gate the menu behind    *)
(* it, the admin broadcast endpoint and the scheduled promo broadcast.     *)
(*                                                                         *)
(* JavaScript values are modelled as follows.  Strings are TLA+ strings;   *)
(* the two distinguished strings Undefined and Null stand for the values   *)
(* undefined and null.  A user object is a record; the array `users` is a  *)
(* sequence of records, and an array copy (users.slice()) is a sequence of *)
(* references, a reference being the index of the object in `users`        *)
(* (objects are only ever pushed, never removed or reordered).             *)
(* Every `await` of a transport call is a point where the handler is       *)
(* suspended: the code up to the await is one action and the code from the *)
(* answer of the transport to the next await is another.                   *)
(***************************************************************************)
EXTENDS Integers, Sequences, FiniteSets, TLC

\* ------------------------------------------------------------- bounds
\* Telegram identities are 1..MaxUsers.
MaxUsers == 2
\* REQUIRED_CHANNELS holds at most MaxChannels channels.
MaxChannels == 2

\* ------------------------------------------------------------- values
Undefined == "undefined"
Null == "null"

\* JavaScript truthiness of the values the model uses (!v).
Falsy(v) == v \in {Undefined, Null, ""}

\* a || b
OrElse(a, b) == IF Falsy(a) THEN b ELSE a

Ids == 1..MaxUsers
\* crypto.randomBytes(10).toString('hex'): any of these values, by chance.
Tokens == {"a1a1", "b2b2"}
\* new Date().toISOString(): the model does not follow the time, every reading
\* of the clock is this one.
Now == "2024-01-01T00:00:00.000Z"

\* ------------------------------------------------------------- state
VARIABLES
  ADMIN_TOKEN,             \* process.env.ADMIN_TOKEN || ''
  REQUIRED_CHANNELS,       \* the parsed list of required channels
  PROMO_INTERVAL_MINUTES,  \* Number(process.env.PROMO_INTERVAL_MINUTES || 1440)
  file,                    \* data/users.json
  loaded,                  \* what loadUsers returned: "array", or "object" for
                           \* any other JSON value; `users` is never reassigned
  users,                   \* the in-memory registry when loaded = "array"
  call,                    \* one call of isMemberOfAllChannels, observed alone
  gate,                    \* the bot handlers in flight (start, menu, check_subs)
  admin,                   \* the POST /admin/broadcast request in flight
  promo,                   \* the promo timer callback in flight
  exited                   \* process.exit has been called

\* What is set while the module loads and never assigned again.
config == <<ADMIN_TOKEN, REQUIRED_CHANNELS, PROMO_INTERVAL_MINUTES, loaded>>
vars == <<ADMIN_TOKEN, REQUIRED_CHANNELS, PROMO_INTERVAL_MINUTES,
          file, loaded, users, call, gate, admin, promo, exited>>

\* ------------------------------------------------------------- configuration
\* A channel name is its text after an optional leading '@'.
ChannelRaw(i) == [at |-> (i % 2 = 0), name |-> i]

\* The lists REQUIRED_CHANNELS may hold: the non-empty trimmed items of the
\* comma separated setting, in the order written.
ChannelLists == {[i \in 1..n |-> ChannelRaw(i)] : n \in 0..MaxChannels}

\* chRaw.startsWith('@') ? chRaw : `@${chRaw}`
AtChannel(chRaw) == IF chRaw.at THEN chRaw ELSE [chRaw EXCEPT !.at = TRUE]

\* ------------------------------------------------------------- registry
\* users.json is missing, is not JSON, holds JSON that is not an array (such as
\* {}), or holds an array of user objects.
FileMissing == [kind |-> "missing", list |-> <<>>]
FileMalformed == [kind |-> "malformed", list |-> <<>>]
FileObject == [kind |-> "object", list |-> <<>>]
FileOf(list) == [kind |-> "array", list |-> list]

\* loadUsers(): [] when readFileSync or JSON.parse throws, else whatever
\* JSON.parse returns.  loadedAs is the kind of that value and loadUsers the
\* array it is, if it is one.
loadedAs(f) == IF f.kind = "object" THEN "object" ELSE "array"
loadUsers(f) == IF f.kind = "array" THEN f.list ELSE <<>>

\* users.find(u => u.telegram_id === tgId): the index of the first match, 0 for
\* undefined.
findUserById(us, tgId) ==
  LET hits == {i \in 1..Len(us) : us[i].telegram_id = tgId}
  IN IF hits = {} THEN 0 ELSE CHOOSE i \in hits : \A j \in hits : i <= j

\* Faulty variant: the token is left out of the object of a new identity.
NewUserTokenless(from, token, now) ==
  [telegram_id |-> from.id,
   username |-> OrElse(from.username, Null),
   first_name |-> OrElse(from.first_name, Null),
   last_name |-> OrElse(from.last_name, Null),
   token |-> Undefined,
   last_seen |-> now]

\* The object addOrUpdateUser builds for an identity it has not seen.
NewUser(from, token, now) ==
  [telegram_id |-> from.id,
   username |-> OrElse(from.username, Null),
   first_name |-> OrElse(from.first_name, Null),
   last_name |-> OrElse(from.last_name, Null),
   token |-> token,
   last_seen |-> now]

\* The assignments addOrUpdateUser makes to the object of a known identity.
TouchUser(u, from, now) ==
  [u EXCEPT !.username = OrElse(from.username, u.username),
            !.first_name = OrElse(from.first_name, u.first_name),
            !.last_name = OrElse(from.last_name, u.last_name),
            !.last_seen = now]

\* Faulty variant: the object is pushed without looking the identity up.
addOrUpdateUserPushes(us, from, token, now) ==
  Append(us, NewUser(from, token, now))

\* Faulty variant: a known identity gets a new object, with a new token.
addOrUpdateUserRenews(us, from, token, now) ==
  LET i == findUserById(us, from.id)
  IN IF i = 0 THEN Append(us, NewUser(from, token, now))
     ELSE [us EXCEPT ![i] = NewUser(from, token, now)]

\* `users` after addOrUpdateUser(from); token is what randomBytes returns and
\* now what the clock reads.
addOrUpdateUser(us, from, token, now) ==
  LET i == findUserById(us, from.id)
  IN IF i = 0 THEN Append(us, NewUser(from, token, now))
     ELSE [us EXCEPT ![i] = TouchUser(us[i], from, now)]

\* Faulty variant: the file gets the list as it was read before the upsert
\* pushed its object (a write that overlaps the next upsert).
saveUsersStale(f, us, written) ==
  CASE written = "ok" -> FileOf(SubSeq(us, 1, Len(us) - 1))
    [] written = "kept" -> f
    [] written = "cut" -> FileMalformed

\* users.json after saveUsers(us): writeFileSync replaces the file, or throws
\* and leaves it as it was or cut short.
saveUsers(f, us, written) ==
  CASE written = "ok" -> FileOf(us)
    [] written = "kept" -> f
    [] written = "cut" -> FileMalformed

WriteOutcomes == {"ok", "kept", "cut"}

\* ------------------------------------------------------------- membership
\* What bot.telegram.getChatMember answers: it throws, or returns a chat member
\* (null and a member without a status included).
StatusValues == {"member", "creator", "administrator", "restricted",
                 "left", "kicked", "banned", Undefined, Null}
Answers == {[threw |-> TRUE, status |-> Undefined]}
             \cup {[threw |-> FALSE, status |-> s] : s \in StatusValues}

\* Faulty variant: a kicked user is not told apart from a member.
NotSubscribedUnlessKicked(status) == status = "left" \/ Falsy(status)

\* status === 'left' || status === 'kicked' || !status
NotSubscribed(status) == status = "left" \/ status = "kicked" \/ Falsy(status)

\* Where isMemberOfAllChannels stands: awaiting the answer for
\* REQUIRED_CHANNELS[ch], returned `ok`, or thrown to its caller.
Awaiting(ch) == [done |-> FALSE, ok |-> FALSE, ch |-> ch, threw |-> FALSE]
Returned(ok) == [done |-> TRUE, ok |-> ok, ch |-> 0, threw |-> FALSE]
Thrown == [done |-> TRUE, ok |-> FALSE, ch |-> 0, threw |-> TRUE]

\* Faulty variant: with no required channel nobody is a member.
isMemberBeginClosed ==
  IF Len(REQUIRED_CHANNELS) = 0 THEN Returned(FALSE) ELSE Awaiting(1)

\* The call up to its first await.
isMemberBegin ==
  IF Len(REQUIRED_CHANNELS) = 0 THEN Returned(TRUE) ELSE Awaiting(1)

\* The call from the answer for channel ch to its next await or its return.
isMemberResume(ch, answer) ==
  IF answer.threw THEN Returned(FALSE)
  ELSE IF NotSubscribed(answer.status) THEN Returned(FALSE)
  ELSE IF ch = Len(REQUIRED_CHANNELS) THEN Returned(TRUE)
  ELSE Awaiting(ch + 1)

\* The getChatMember call isMemberOfAllChannels(tgId) has pending at `at`.
Lookup(at, tgId) ==
  [chat |-> AtChannel(REQUIRED_CHANNELS[at.ch]), user |-> tgId]

\* ------------------------------------------------------------- one call alone
\* isMemberOfAllChannels(tgId) observed from its call to its return: `asked`
\* are the getChatMember calls it has made, `answers` what they answered.
CallIdle ==
  [state |-> "idle", tgId |-> 0, at |-> Returned(FALSE),
   asked |-> <<>>, answers |-> <<>>]

AskedAt(at, tgId) == IF at.done THEN <<>> ELSE <<Lookup(at, tgId)>>

CallBegins(tgId) ==
  /\ call.state \in {"idle", "returned"}
  /\ call' = [state |-> IF isMemberBegin.done THEN "returned" ELSE "awaiting",
              tgId |-> tgId,
              at |-> isMemberBegin,
              asked |-> AskedAt(isMemberBegin, tgId),
              answers |-> <<>>]
  /\ ~exited
  /\ UNCHANGED <<config, exited, file, users, gate, admin, promo>>

CallResumes(answer) ==
  /\ call.state = "awaiting"
  /\ LET at == isMemberResume(call.at.ch, answer)
     IN call' = [call EXCEPT
                   !.state = IF at.done THEN "returned" ELSE "awaiting",
                   !.at = at,
                   !.asked = call.asked \o AskedAt(at, call.tgId),
                   !.answers = Append(call.answers, answer)]
  /\ ~exited
  /\ UNCHANGED <<config, exited, file, users, gate, admin, promo>>

\* ------------------------------------------------------------- broadcast
\* The Telegram sendMessage call of a broadcast: admin and promo send the same
\* keyboard, with the user's token in the play link; promo adds
\* disable_notification.
Message(u, text, silent) ==
  [to |-> u.telegram_id, text |-> text, token |-> u.token, silent |-> silent]

\* One line of the record of a pass: the outcome of the membership check of the
\* user at position pos of usersCopy, or of the send to that user.
Checked(pos, u, ok) ==
  [what |-> "check", pos |-> pos, user |-> u.telegram_id, ok |-> ok,
   msg |-> Message(u, "", FALSE)]
Sent(pos, u, ok, msg) ==
  [what |-> "send", pos |-> pos, user |-> u.telegram_id, ok |-> ok, msg |-> msg]

\* A broadcast loop (path "admin": lines 170-192, path "promo": lines 219-237):
\* its local variables, the point where it is suspended, and `log`, the record
\* of what it has done.
PassIdle(path) ==
  [path |-> path, pc |-> "idle", provided |-> Undefined, body |-> Undefined,
   text |-> Undefined, status |-> 0, sent |-> 0, failed |-> 0,
   usersCopy |-> <<>>, pos |-> 0, phase |-> "", at |-> Returned(FALSE),
   log |-> <<>>, threw |-> FALSE]

\* users.slice() throws (`users` is not an array): the async function rejects
\* before its loop, the admin handler without a response.
PassThrows(p) == [p EXCEPT !.pc = "done", !.threw = TRUE]

\* users.slice(): the references held by `users` now.
Slice(us) == [i \in 1..Len(us) |-> i]

\* Faulty variant: the loop sends whatever the check returned.
SubscribedAlways(at) == TRUE

\* isMemberOfAllChannels(...).catch(() => false)
Subscribed(at) == at.ok /\ ~at.threw

\* The loop has left the last user: the admin handler answers
\* res.json({ok: true, sent, failed}), the promo callback just ends.
PassEnds(p) ==
  [p EXCEPT !.pc = "done", !.phase = "", !.at = Returned(FALSE),
            !.status = IF p.path = "admin" THEN 200 ELSE 0]

\* The loop has what isMemberOfAllChannels returned for the user at pos.
PassChecked(p, pos, at) ==
  [p EXCEPT !.pos = pos, !.at = Returned(at.ok),
            !.log = Append(p.log, Checked(pos, users[p.usersCopy[pos]], at.ok))]

\* The loop from the head of the iteration for position pos to its next await;
\* `if (!subscribed) continue` takes it to the next position.
RECURSIVE PassEnters(_, _)

\* Faulty variant: sendMessage is called and not awaited, the loop goes on to
\* the next user with the send in flight.
PassSendsUnawaited(p) == PassEnters(p, p.pos + 1)

\* The loop calls sendMessage for the user at pos and awaits it.
PassSends(p) == [p EXCEPT !.phase = "send"]

PassEnters(p, pos) ==
  IF pos > Len(p.usersCopy) THEN PassEnds(p)
  ELSE LET at == isMemberBegin
       IN IF ~at.done THEN [p EXCEPT !.pos = pos, !.phase = "member", !.at = at]
          ELSE IF Subscribed(at) THEN PassSends(PassChecked(p, pos, at))
          ELSE PassEnters(PassChecked(p, pos, at), pos + 1)

\* Faulty variant: the loop runs over `users` itself, which has grown by the
\* time getChatMember answers.
PassMemberAnswersLive(p, answer) ==
  LET q == [p EXCEPT !.usersCopy = Slice(users)]
      at == isMemberResume(q.at.ch, answer)
  IN IF ~at.done THEN [q EXCEPT !.at = at]
     ELSE IF Subscribed(at) THEN PassSends(PassChecked(q, q.pos, at))
     ELSE PassEnters(PassChecked(q, q.pos, at), q.pos + 1)

\* The loop from an answer of getChatMember to its next await.
PassMemberAnswers(p, answer) ==
  LET at == isMemberResume(p.at.ch, answer)
  IN IF ~at.done THEN [p EXCEPT !.at = at]
     ELSE IF Subscribed(at) THEN PassSends(PassChecked(p, p.pos, at))
     ELSE PassEnters(PassChecked(p, p.pos, at), p.pos + 1)

\* The message the loop has pending while it awaits sendMessage.
PassMessage(p) ==
  Message(users[p.usersCopy[p.pos]], p.text, p.path = "promo")

\* sent++ after the await (admin only).
Tally(p, ok) ==
  IF p.path = "admin" /\ ok THEN [p EXCEPT !.sent = p.sent + 1] ELSE p

\* Faulty variant: a send that throws is not counted.
CaughtUncounted(p, ok) == p

\* catch (e) { console.error(...); failed++ } (admin only counts).
Caught(p, ok) ==
  IF p.path = "admin" /\ ~ok THEN [p EXCEPT !.failed = p.failed + 1] ELSE p

\* Faulty variant: a send that throws ends the loop.
PassSendAborts(p, ok) ==
  LET q == [p EXCEPT !.log = Append(p.log,
                Sent(p.pos, users[p.usersCopy[p.pos]], ok, PassMessage(p)))]
  IN IF ok THEN PassEnters(Tally(q, ok), p.pos + 1)
     ELSE PassEnds(Caught(q, ok))

\* The loop from the answer of sendMessage (ok: it resolved, ~ok: it threw) to
\* its next await.
PassSendAnswers(p, ok) ==
  LET q == [p EXCEPT !.log = Append(p.log,
                Sent(p.pos, users[p.usersCopy[p.pos]], ok, PassMessage(p)))]
  IN PassEnters(Caught(Tally(q, ok), ok), p.pos + 1)

\* --- POST /admin/broadcast
\* req.headers['x-admin-token'] || req.query.admin_token
Provided(header, query) == OrElse(header, query)

\* Faulty variant: an empty ADMIN_TOKEN is compared like any other.
ForbiddenUnlessEqual(provided) == provided # ADMIN_TOKEN

\* !ADMIN_TOKEN || provided !== ADMIN_TOKEN
Forbidden(provided) == Falsy(ADMIN_TOKEN) \/ provided # ADMIN_TOKEN

\* Faulty variant: only an absent text is refused.
TextAbsent(text) == text = Undefined

\* !text
TextMissing(text) == Falsy(text)

\* The handler from the request to its first await or its response.
AdminHandles(header, query, body) ==
  LET provided == Provided(header, query)
      p == [PassIdle("admin") EXCEPT !.provided = provided, !.body = body]
  IN IF Forbidden(provided) THEN [p EXCEPT !.pc = "done", !.status = 403]
     ELSE IF TextMissing(body) THEN
       [p EXCEPT !.pc = "done", !.status = 400, !.text = body]
     ELSE IF loaded # "array" THEN PassThrows([p EXCEPT !.text = body])
     ELSE PassEnters([p EXCEPT !.pc = "run", !.text = body,
                               !.usersCopy = Slice(users)], 1)

\* `admin` follows one request at a time: the next is taken up once the one on
\* record has been answered.
AdminRequest(header, query, body) ==
  /\ admin.pc # "run"
  /\ admin' = AdminHandles(header, query, body)
  /\ ~exited
  /\ UNCHANGED <<config, exited, file, users, call, gate, promo>>

AdminMemberAnswers(answer) ==
  /\ admin.pc = "run" /\ admin.phase = "member"
  /\ admin' = PassMemberAnswers(admin, answer)
  /\ ~exited
  /\ UNCHANGED <<config, exited, file, users, call, gate, promo>>

AdminSendAnswers(ok) ==
  /\ admin.pc = "run" /\ admin.phase = "send"
  /\ admin' = PassSendAnswers(admin, ok)
  /\ ~exited
  /\ UNCHANGED <<config, exited, file, users, call, gate, promo>>

\* --- the promo timer
\* Number(process.env.PROMO_INTERVAL_MINUTES || 1440) for the settings the model
\* tries; a number is its value, or NaN.
Num(n) == [nan |-> FALSE, n |-> n]
NaN == [nan |-> TRUE, n |-> 0]
PromoSettings == {Undefined, "0", "-5", "abc"}
NumberOf(setting) ==
  CASE Falsy(setting) -> Num(1440)
    [] setting = "0" -> Num(0)
    [] setting = "-5" -> Num(0 - 5)
    [] OTHER -> NaN

\* x > 0 (false of NaN)
Positive(x) == ~x.nan /\ x.n > 0

PROMO_MESSAGES == <<"tech", "clothing", "game">>

\* Faulty variant: the timer is set whether ADMIN_TOKEN is set or not.
PromoArmedByInterval == Positive(PROMO_INTERVAL_MINUTES)

\* PROMO_INTERVAL_MINUTES > 0 && ADMIN_TOKEN: setInterval is called.
PromoArmed == Positive(PROMO_INTERVAL_MINUTES) /\ ~Falsy(ADMIN_TOKEN)

\* The callback from the tick to its first await; k is
\* Math.floor(Math.random() * PROMO_MESSAGES.length) + 1.  `promo` follows one
\* callback at a time.
PromoTick(k) ==
  /\ PromoArmed
  /\ promo.pc # "run"
  /\ promo' =
       LET p == [PassIdle("promo") EXCEPT !.text = PROMO_MESSAGES[k]]
       IN IF loaded # "array" THEN PassThrows(p)
          ELSE PassEnters([p EXCEPT !.pc = "run",
                                    !.usersCopy = Slice(users)], 1)
  /\ ~exited
  /\ UNCHANGED <<config, exited, file, users, call, gate, admin>>

PromoMemberAnswers(answer) ==
  /\ promo.pc = "run" /\ promo.phase = "member"
  /\ promo' = PassMemberAnswers(promo, answer)
  /\ ~exited
  /\ UNCHANGED <<config, exited, file, users, call, gate, admin>>

PromoSendAnswers(ok) ==
  /\ promo.pc = "run" /\ promo.phase = "send"
  /\ promo' = PassSendAnswers(promo, ok)
  /\ ~exited
  /\ UNCHANGED <<config, exited, file, users, call, gate, admin>>

\* ------------------------------------------------------------- bot handlers
\* The handler slots: the updates being handled at a time.
Handlers == {1, 2}
Kinds == {"start", "menu", "check_subs"}

\* ctx.from of the updates the model tries: an identity that gives no names, or
\* one that gives a username and a first name.
Anonymous(id) ==
  [id |-> id, username |-> Undefined, first_name |-> Undefined,
   last_name |-> Undefined]
Named(id) ==
  [id |-> id, username |-> "neo", first_name |-> "Neo", last_name |-> Undefined]
Froms == {Anonymous(id) : id \in Ids} \cup {Named(id) : id \in Ids}

\* mainMenuInline(token): the play link carries the token.
mainMenuInline(token) ==
  [keyboard |-> "menu", token |-> token, subscribe |-> <<>>, recheck |-> FALSE]

\* `https://t.me/${ch.replace('@','')}`
ChannelUrl(chRaw) == [chRaw EXCEPT !.at = FALSE]

\* One subscribe button per required channel and the check_subs button.
SubscribePrompt ==
  [keyboard |-> "subscribe", token |-> "",
   subscribe |-> [i \in 1..Len(REQUIRED_CHANNELS) |->
                    ChannelUrl(REQUIRED_CHANNELS[i])],
   recheck |-> TRUE]

NoKeyboard ==
  [keyboard |-> "", token |-> "", subscribe |-> <<>>, recheck |-> FALSE]

Out(method, markup) == [method |-> method, markup |-> markup]

\* A handler: the update it handles, u (the reference addOrUpdateUser
\* returned), where its isMemberOfAllChannels call stands, the ctx call it has
\* pending, and how the handler before it ended.
HandlerIdle ==
  [pc |-> "idle", kind |-> "", id |-> 0, u |-> 0, at |-> Returned(FALSE),
   out |-> Out("", NoKeyboard), last |-> ""]
Ended(how) == [HandlerIdle EXCEPT !.last = how]

\* Faulty variant: /start and /menu show the menu whatever the check returned.
HandlerAnswersOpen(g, at) ==
  IF at.threw THEN Ended("threw")
  ELSE LET menu == mainMenuInline(users'[g.u].token)
           out == IF g.kind = "check_subs"
                  THEN IF at.ok THEN Out("editMessageText", menu)
                       ELSE Out("answerCbQuery", NoKeyboard)
                  ELSE Out("reply", menu)
       IN [g EXCEPT !.pc = "reply", !.at = at, !.out = out]

\* The handler from the return of isMemberOfAllChannels to its next await.
HandlerAnswers(g, at) ==
  IF at.threw THEN Ended("threw")
  ELSE LET menu == mainMenuInline(users'[g.u].token)
           out == IF g.kind = "check_subs"
                  THEN IF at.ok THEN Out("editMessageText", menu)
                       ELSE Out("answerCbQuery", NoKeyboard)
                  ELSE IF at.ok THEN Out("reply", menu)
                       ELSE Out("reply", SubscribePrompt)
       IN [g EXCEPT !.pc = "reply", !.at = at, !.out = out]

\* The handler from the call of isMemberOfAllChannels to its next await.
HandlerChecks(g) ==
  LET at == isMemberBegin
  IN IF at.done THEN HandlerAnswers(g, at)
     ELSE [g EXCEPT !.pc = "member", !.at = at]

\* bot.start, bot.command('menu'), bot.action('check_subs'): the handler from
\* the update to its first await.  saveUsers throwing ends the handler, after
\* `users` has been changed; when `users` is not an array, users.find is not a
\* function and the handler ends before it changes anything.
BotUpdate(h, kind, from, token, now, written) ==
  /\ gate[h].pc = "idle"
  /\ IF loaded # "array"
     THEN /\ users' = users
          /\ file' = file
          /\ gate' = [gate EXCEPT ![h] = Ended("threw")]
     ELSE /\ users' = addOrUpdateUser(users, from, token, now)
          /\ file' = saveUsers(file, users', written)
          /\ gate' = [gate EXCEPT ![h] =
               IF written # "ok" THEN Ended("threw")
               ELSE HandlerChecks([HandlerIdle EXCEPT
                      !.kind = kind, !.id = from.id,
                      !.u = findUserById(users', from.id)])]
  /\ ~exited
  /\ UNCHANGED <<config, exited, call, admin, promo>>

BotMemberAnswers(h, answer) ==
  /\ gate[h].pc = "member"
  /\ ~exited
  /\ UNCHANGED <<config, exited, file, users, call, admin, promo>>
  /\ LET at == isMemberResume(gate[h].at.ch, answer)
     IN gate' = [gate EXCEPT ![h] =
          IF at.done THEN HandlerAnswers(gate[h], at)
          ELSE [gate[h] EXCEPT !.at = at]]

\* The pending ctx call resolves (ok) or throws: a throw of editMessageText is
\* caught and the menu is sent with ctx.reply, any other throw ends the handler.
BotReplyAnswers(h, ok) ==
  /\ gate[h].pc = "reply"
  /\ gate' = [gate EXCEPT ![h] =
       IF ok THEN Ended("done")
       ELSE IF gate[h].out.method = "editMessageText"
            THEN [gate[h] EXCEPT !.out = Out("reply", gate[h].out.markup)]
            ELSE Ended("threw")]
  /\ ~exited
  /\ UNCHANGED <<config, exited, file, users, call, admin, promo>>

\* ------------------------------------------------------------- startup
\* An array users.json may hold at startup: what an earlier run of the server
\* wrote, one object per identity, in the order the identities first wrote in.
RECURSIVE Registries(_, _)
Registries(n, tokens) ==
  IF n = 0 THEN {<<>>}
  ELSE LET shorter == Registries(n - 1, tokens)
       IN shorter \cup
          {Append(us, NewUser(Anonymous(id), token, Now)) :
             us \in {r \in shorter : Len(r) = n - 1},
             id \in Ids, token \in tokens}

WellFormed(us) ==
  \A i, j \in 1..Len(us) : us[i].telegram_id = us[j].telegram_id => i = j

StartFilesOf(tokens) ==
  {FileMissing, FileMalformed}
    \cup {FileOf(us) :
            us \in {r \in Registries(MaxUsers, tokens) : WellFormed(r)}}
StartFiles == StartFilesOf(Tokens)

\* Anything users.json may hold at startup, the file being written by hand or
\* by another program as well: also JSON that is not an array, and arrays in
\* which an identity comes twice.
StoresOf(tokens) ==
  {FileMissing, FileMalformed, FileObject}
    \cup {FileOf(us) : us \in Registries(MaxUsers, tokens)}

AdminTokens == {"", "s3cret"}

\* The state once the module is loaded: the settings are read, users.json is
\* loaded into `users`, nothing is in flight.
Starts(f, channels, adminToken, setting) ==
  /\ ADMIN_TOKEN = adminToken
  /\ REQUIRED_CHANNELS = channels
  /\ PROMO_INTERVAL_MINUTES = NumberOf(setting)
  /\ file = f
  /\ loaded = loadedAs(f)
  /\ users = loadUsers(f)
  /\ call = CallIdle
  /\ gate = [h \in Handlers |-> HandlerIdle]
  /\ admin = PassIdle("admin")
  /\ promo = PassIdle("promo")
  /\ exited = FALSE

Init ==
  \E f \in StoresOf(Tokens), channels \in ChannelLists,
     adminToken \in AdminTokens, setting \in PromoSettings :
    Starts(f, channels, adminToken, setting)

\* process.once('SIGINT' / 'SIGTERM'): bot.stop(signal), then process.exit(0)
\* in the same callback.  Whatever is suspended at an await stays there.
Shutdown(signal) ==
  /\ ~exited
  /\ exited' = TRUE
  /\ UNCHANGED <<config, file, users, call, gate, admin, promo>>

Signals == {"SIGINT", "SIGTERM"}

\* What a request may carry as X-Admin-Token, as admin_token and as body.text.
Credentials == {Undefined, "", "s3cret", "guess"}
Texts == {Undefined, "", "Sale!"}

\* crypto.randomBytes is called for an identity `users` does not hold.
Draws(from, tokens) == IF findUserById(users, from.id) = 0 THEN tokens ELSE {""}

\* The bot taking updates of these kinds from these senders in the handler
\* slots hs, randomBytes returning one of `tokens` and the write of users.json
\* ending in one of `outcomes`.
BotOf(hs, kinds, froms, tokens, outcomes) ==
  \/ \E h \in hs, kind \in kinds, from \in froms, written \in outcomes :
       \E token \in Draws(from, tokens) :
         BotUpdate(h, kind, from, token, Now, written)
  \/ \E h \in hs, answer \in Answers : BotMemberAnswers(h, answer)
  \/ \E h \in hs, ok \in BOOLEAN : BotReplyAnswers(h, ok)

Bot == BotOf(Handlers, Kinds, Froms, Tokens, WriteOutcomes)

Admin ==
  \/ \E header \in Credentials, query \in Credentials, body \in Texts :
       AdminRequest(header, query, body)
  \/ \E answer \in Answers : AdminMemberAnswers(answer)
  \/ \E ok \in BOOLEAN : AdminSendAnswers(ok)

Promo ==
  \/ \E k \in 1..Len(PROMO_MESSAGES) : PromoTick(k)
  \/ \E answer \in Answers : PromoMemberAnswers(answer)
  \/ \E ok \in BOOLEAN : PromoSendAnswers(ok)

\* The server: updates, requests, ticks and a signal in any interleaving.
Next == Bot \/ Admin \/ Promo \/ \E signal \in Signals : Shutdown(signal)

Spec == Init /\ [][Next]_vars

\* --- isMemberOfAllChannels alone, with every answer of the transport
InitIsMember ==
  \E channels \in ChannelLists : Starts(FileMissing, channels, "", Undefined)

NextIsMember ==
  \/ \E tgId \in Ids : CallBegins(tgId)
  \/ \E answer \in Answers : CallResumes(answer)

SpecIsMember == InitIsMember /\ [][NextIsMember]_vars

\* --- the bot alone, no broadcast: one update at a time, from its upsert to
\* its reply.  Handlers share `users` and users.json only, and touch them in
\* their first step, which is synchronous.
InitBot ==
  \E f \in StartFiles, channels \in ChannelLists :
    Starts(f, channels, "", Undefined)

NextBot == BotOf({1}, Kinds, Froms, Tokens, WriteOutcomes)

SpecBot == InitBot /\ [][NextBot]_vars

\* --- the broadcasts: one pass at a time, admin or promo, while the bot takes
\* /start from new and known identities.  A pass reads `users` once, when it
\* starts, and writes nothing the bot or another pass reads.
AdminForgotten ==
  /\ admin.pc = "done"
  /\ admin' = PassIdle("admin")
  /\ ~exited
  /\ UNCHANGED <<config, exited, file, users, call, gate, promo>>

PromoForgotten ==
  /\ promo.pc = "done"
  /\ promo' = PassIdle("promo")
  /\ ~exited
  /\ UNCHANGED <<config, exited, file, users, call, gate, admin>>

\* A request taken up while no promo pass is on record.
AdminRequestAlone(header, query, body) ==
  promo.pc = "idle" /\ AdminRequest(header, query, body)

\* A tick taken up while no admin request is on record.
PromoTickAlone(k) == admin.pc = "idle" /\ PromoTick(k)

\* The admin_token query parameter of the requests followed here: absent,
\* empty or the secret; a wrong token comes in the header.
QueryCredentials == Credentials \ {"guess"}

NextBroadcast ==
  \/ BotOf({1}, {"start"}, {Anonymous(id) : id \in Ids}, {"a1a1"}, {"ok"})
  \/ \E header \in Credentials, query \in QueryCredentials, body \in Texts :
       AdminRequestAlone(header, query, body)
  \/ \E answer \in Answers : AdminMemberAnswers(answer)
  \/ \E ok \in BOOLEAN : AdminSendAnswers(ok)
  \/ \E k \in 1..Len(PROMO_MESSAGES) : PromoTickAlone(k)
  \/ \E answer \in Answers : PromoMemberAnswers(answer)
  \/ \E ok \in BOOLEAN : PromoSendAnswers(ok)
  \/ AdminForgotten
  \/ PromoForgotten

InitBroadcast ==
  \E f \in StartFilesOf({"a1a1"}), channels \in ChannelLists,
     adminToken \in AdminTokens, setting \in PromoSettings :
    Starts(f, channels, adminToken, setting)

SpecBroadcast == InitBroadcast /\ [][NextBroadcast]_vars

\* --- the handlers overlapping: two updates in flight at a time, each
\* suspended at its awaits while the other is taken up, and the write of
\* users.json may throw.  The passes are left out: they read `users` once
\* (users.slice()) and assign neither `users` nor users.json.
InitOverlap ==
  \E f \in StartFilesOf({"a1a1"}), channels \in ChannelLists :
    Starts(f, channels, "", Undefined)

NextOverlap == BotOf(Handlers, {"start"}, Froms, {"a1a1"}, {"ok", "kept"})

SpecOverlap == InitOverlap /\ [][NextOverlap]_vars

\* --- the process from its start on whatever users.json holds to its exit: the
\* bot takes /start, one pass is followed at a time, a signal may arrive at any
\* moment.
InitProcess ==
  \E f \in StoresOf({"a1a1"}), channels \in ChannelLists,
     adminToken \in AdminTokens, setting \in PromoSettings :
    Starts(f, channels, adminToken, setting)

NextProcess ==
  \/ NextBroadcast
  \/ \E signal \in Signals : Shutdown(signal)

SpecProcess == InitProcess /\ [][NextProcess]_vars

\* ------------------------------------------------------------- claims
\* The lines of a pass's record about position pos, and its sends.
LinesAt(p, pos) == {i \in 1..Len(p.log) : p.log[i].pos = pos}
SendsOf(p) == {i \in 1..Len(p.log) : p.log[i].what = "send"}
SkipsOf(p) ==
  {i \in 1..Len(p.log) : p.log[i].what = "check" /\ ~p.log[i].ok}

\* A pass has made no getChatMember and no sendMessage call.
Untouched(p) ==
  p.log = <<>> /\ p.phase = "" /\ p.usersCopy = <<>> /\ p.pos = 0

\* The request on record presented the configured, non-empty admin token.
Authorized == ~Falsy(ADMIN_TOKEN) /\ admin.provided = ADMIN_TOKEN

\* C1: an admin broadcast request whose presented token is absent or differs
\* from ADMIN_TOKEN, and any request when ADMIN_TOKEN is empty, is answered 403
\* without a membership check, without a send and without reading the text.
C1_ForbiddenSendsNothing ==
  (admin.pc # "idle" /\ ~Authorized) =>
    /\ admin.pc = "done"
    /\ admin.status = 403
    /\ admin.text = Undefined
    /\ Untouched(admin)

\* C1 witness: a request with a valid text and a wrong token has been refused
\* while the registry holds users.
C1_Witness ==
  /\ admin.status = 403 /\ admin.body = "Sale!" /\ admin.provided = "guess"
  /\ ADMIN_TOKEN = "s3cret" /\ Len(users) = MaxUsers

\* C10: an authorized request whose text is missing or empty is answered 400
\* without a membership check and without a send.
C10_TextRequired ==
  (admin.pc # "idle" /\ Authorized /\ admin.body \in {Undefined, ""}) =>
    /\ admin.pc = "done"
    /\ admin.status = 400
    /\ Untouched(admin)

\* C10 witness: an authorized request with an empty text has been refused while
\* the registry holds users.
C10_Witness ==
  /\ admin.status = 400 /\ admin.body = "" /\ Authorized
  /\ Len(users) = MaxUsers

\* In the record of pass p every send follows at once the membership check of
\* the same user at the same position, which returned true, and a pending send
\* stands right after such a check; no send follows a check that returned
\* false.
SendsOnlyToMembers(p) ==
  /\ \A i \in SendsOf(p) :
       /\ i > 1
       /\ p.log[i - 1].what = "check" /\ p.log[i - 1].ok
       /\ p.log[i - 1].pos = p.log[i].pos
       /\ p.log[i - 1].user = p.log[i].user
       /\ p.log[i].msg.to = p.log[i].user
  /\ p.phase = "send" =>
       /\ p.log # <<>>
       /\ p.log[Len(p.log)].what = "check" /\ p.log[Len(p.log)].ok
       /\ p.log[Len(p.log)].pos = p.pos
       /\ PassMessage(p).to = p.log[Len(p.log)].user
  /\ \A i \in SkipsOf(p) :
       /\ \A j \in SendsOf(p) : p.log[j].pos # p.log[i].pos
       /\ ~(p.phase = "send" /\ p.pos = p.log[i].pos)

\* C2: in every broadcast pass, admin or promo, a message is sent to a user
\* only if the membership check of that user, made in the same pass right
\* before the send, returned true; a user whose check returned false gets no
\* message from the pass.
C2_SendsOnlyToMembers == SendsOnlyToMembers(admin) /\ SendsOnlyToMembers(promo)

\* C2 witness: a finished promo pass has skipped its first user and sent to its
\* second.
C2_Witness ==
  /\ promo.pc = "done" /\ Len(promo.usersCopy) = 2
  /\ \E i \in SkipsOf(promo) : promo.log[i].pos = 1
  /\ \E j \in SendsOf(promo) : promo.log[j].pos = 2 /\ promo.log[j].ok

\* Pass p, finished, has processed every position of its copy in order: one
\* check each and, where the check returned true, one send attempt.
Complete(p) ==
  /\ \A pos \in 1..Len(p.usersCopy) :
       \E i \in LinesAt(p, pos) :
         /\ p.log[i].what = "check"
         /\ p.log[i].user = users[p.usersCopy[pos]].telegram_id
         /\ LinesAt(p, pos) =
              IF p.log[i].ok THEN {i, i + 1} ELSE {i}
         /\ p.log[i].ok => p.log[i + 1].what = "send"
  /\ \A i, j \in 1..Len(p.log) : i < j => p.log[i].pos <= p.log[j].pos

\* C3: a send that throws does not cut a pass short and is not thrown out of
\* it: a pass that has started runs until it has processed every user of its
\* copy and then ends normally (the admin handler answers 200).
C3_FailureDoesNotTruncate ==
  \A p \in {admin, promo} :
    /\ p.pc \in {"idle", "run", "done"}
    /\ (p.pc = "done" /\ p.status \notin {400, 403}) =>
         /\ Complete(p)
         /\ p.path = "admin" => p.status = 200

\* C3 witness: a finished admin pass whose send to its first user threw has
\* gone on to send to its second.
C3_Witness ==
  /\ admin.pc = "done" /\ admin.status = 200
  /\ \E i, j \in SendsOf(admin) :
       /\ admin.log[i].pos = 1 /\ ~admin.log[i].ok
       /\ admin.log[j].pos = 2 /\ admin.log[j].ok

\* C4: the answer of a finished admin pass counts as sent the users whose send
\* resolved and as failed those whose send threw; a skipped user is in neither,
\* so sent + failed + skipped is the size of the copy.
C4_CountsAreTrue ==
  (admin.pc = "done" /\ admin.status = 200) =>
    /\ admin.sent = Cardinality({i \in SendsOf(admin) : admin.log[i].ok})
    /\ admin.failed = Cardinality({i \in SendsOf(admin) : ~admin.log[i].ok})
    /\ admin.sent + admin.failed + Cardinality(SkipsOf(admin))
         = Len(admin.usersCopy)

\* C4 witness: an admin pass over two users has answered sent 0, failed 1, the
\* other user skipped.
C4_Witness ==
  /\ admin.pc = "done" /\ admin.status = 200 /\ Len(admin.usersCopy) = 2
  /\ admin.sent = 0 /\ admin.failed = 1 /\ Cardinality(SkipsOf(admin)) = 1

\* The objects of `us` that carry identity id.
RecordsOf(us, id) == {i \in 1..Len(us) : us[i].telegram_id = id}

C6_TokenSetOnce ==
  [][/\ Len(users') >= Len(users)
     /\ \A i \in 1..Len(users) :
          /\ users'[i].telegram_id = users[i].telegram_id
          /\ users'[i].token = users[i].token
     /\ \A h \in Handlers :
          gate'[h].pc # "idle" =>
            /\ gate'[h].u = findUserById(users', gate'[h].id)
            /\ gate'[h].u > 0]_vars

\* C6 witness: the handler in flight has upserted an identity whose object was
\* there before, with its name taken over and its token as it was.
C6_Witness ==
  /\ gate[1].pc # "idle" /\ gate[1].u = 1 /\ Len(users) = 2
  /\ users[1].username = "neo" /\ users[1].token = "b2b2"
  /\ file.kind = "array" /\ Len(file.list) = 2

MemberStatuses == {"member", "creator", "administrator", "restricted"}

\* An answer on which the loop of isMemberOfAllChannels must stop: the lookup
\* threw, or the status is left, kicked or absent.
Negative(answer) ==
  answer.threw \/ answer.status \in {"left", "kicked", Undefined, Null}

\* C7: isMemberOfAllChannels returns true only if every required channel was
\* looked up and answered one of member, creator, administrator, restricted.
C7_MemberOnlyIfListed ==
  (call.state = "returned" /\ call.at.ok) =>
    /\ Len(call.answers) = Len(REQUIRED_CHANNELS)
    /\ \A k \in 1..Len(call.answers) :
         ~call.answers[k].threw /\ call.answers[k].status \in MemberStatuses

\* C8: isMemberOfAllChannels looks the channels up in the configured order and,
\* at the first answer that is left, kicked, absent or a thrown error, returns
\* false, throws nothing and makes no further lookup.
C8_ShortCircuit ==
  /\ ~call.at.threw
  /\ Len(call.asked) <= Len(REQUIRED_CHANNELS)
  /\ \A i \in 1..Len(call.asked) :
       call.asked[i] = [chat |-> AtChannel(REQUIRED_CHANNELS[i]),
                        user |-> call.tgId]
  /\ \A k \in 1..Len(call.answers) :
       Negative(call.answers[k]) =>
         /\ k = Len(call.answers)
         /\ Len(call.asked) = k
         /\ call.state = "returned" /\ ~call.at.ok

\* C8 witness: with two required channels, the lookup of the first threw and
\* the call has returned false after that one lookup.
C8_Witness ==
  /\ Len(REQUIRED_CHANNELS) = 2 /\ call.state = "returned" /\ ~call.at.ok
  /\ Len(call.asked) = 1 /\ Len(call.answers) = 1 /\ call.answers[1].threw

\* C9: with no required channel, isMemberOfAllChannels returns true for every
\* identity without a getChatMember call.
C9_NoChannelsMeansMember ==
  (Len(REQUIRED_CHANNELS) = 0 /\ call.state # "idle") =>
    /\ call.state = "returned" /\ call.at.ok /\ ~call.at.threw
    /\ call.asked = <<>> /\ call.answers = <<>>

\* C9 witness: with no required channel a call for identity MaxUsers has
\* returned.
C9_Witness ==
  /\ Len(REQUIRED_CHANNELS) = 0 /\ call.state = "returned"
  /\ call.tgId = MaxUsers

\* `us` holds an object for identity id, and every such object carries a token.
Registered(us, id) ==
  /\ RecordsOf(us, id) # {}
  /\ \A i \in RecordsOf(us, id) : ~Falsy(us[i].token)

\* C11: in every handling of /start, /menu and check_subs the upsert of the
\* sender is done before the first getChatMember call goes out, and when the
\* handling ends, the check having returned true or false (a thrown lookup
\* included), `users` holds an object with a token for the sender.
C11_UpsertBeforeCheck ==
  [][\A h \in Handlers :
       /\ gate'[h].pc \in {"member", "reply"} =>
            Registered(users', gate'[h].id)
       /\ (gate[h].pc \in {"member", "reply"} /\ gate'[h].pc = "idle") =>
            Registered(users', gate[h].id)]_vars

\* C11 witness: /start of an identity the store did not hold, two channels
\* required, the check has returned false and the subscribe prompt is pending;
\* the sender is in `users` with a token.
C11_Witness ==
  /\ gate[1].pc = "reply" /\ gate[1].kind = "start" /\ ~gate[1].at.ok
  /\ Len(REQUIRED_CHANNELS) = 2
  /\ Len(users) = 1 /\ users[1].telegram_id = gate[1].id
  /\ users[1].token \in Tokens

\* C12: a handler sends the menu exactly when its own membership check returned
\* true, and the menu's play link carries the token of the sender's object;
\* when the check returned false, /start and /menu reply with the prompt: one
\* subscribe button per required channel, in order, and the re-check button;
\* check_subs only answers the callback query, with no keyboard and no edit.
C12_MenuIffMember ==
  \A h \in Handlers :
    gate[h].pc = "reply" =>
      LET g == gate[h]
          m == g.out.markup
      IN /\ (m.keyboard = "menu") <=> g.at.ok
         /\ g.at.ok =>
              /\ m.token = users[findUserById(users, g.id)].token
              /\ m.subscribe = <<>> /\ ~m.recheck
              /\ g.out.method \in {"reply", "editMessageText"}
              /\ g.out.method = "editMessageText" => g.kind = "check_subs"
         /\ (~g.at.ok /\ g.kind \in {"start", "menu"}) =>
              /\ g.out.method = "reply"
              /\ m.keyboard = "subscribe" /\ m.recheck
              /\ Len(m.subscribe) = Len(REQUIRED_CHANNELS)
              /\ \A i \in 1..Len(REQUIRED_CHANNELS) :
                   m.subscribe[i] =
                     [at |-> FALSE, name |-> REQUIRED_CHANNELS[i].name]
         /\ (~g.at.ok /\ g.kind = "check_subs") =>
              /\ g.out.method = "answerCbQuery"
              /\ m.keyboard = "" /\ m.subscribe = <<>> /\ ~m.recheck

\* C12 witness: check_subs of the second of two known identities, the check
\* returned true after two lookups and the menu with that identity's token is
\* being put in place of the prompt.
C12_Witness ==
  /\ gate[1].pc = "reply" /\ gate[1].kind = "check_subs" /\ gate[1].at.ok
  /\ gate[1].out.method = "editMessageText"
  /\ Len(REQUIRED_CHANNELS) = 2 /\ Len(users) = 2 /\ gate[1].u = 2
  /\ users[1].token # users[2].token
  /\ gate[1].out.markup.token = users[2].token

\* C13: when writeFileSync throws in an upsert, the handler goes on to the
\* membership check and the reply all the same (the object stays in `users`).
\* A step in which an idle handler takes an update and users.json is left
\* other than `users` is an upsert whose write threw.
C13_WriteFailureNonFatal ==
  [][\A h \in Handlers :
       (/\ gate[h].pc = "idle" /\ gate'[h] # gate[h]
        /\ file' # FileOf(users')) =>
         /\ gate'[h].pc \in {"member", "reply"}
         /\ Registered(users', gate'[h].id)]_vars

\* C14: whatever users.json holds at startup (nothing, text that is not JSON,
\* JSON that is not a list of user objects), the server starts with a registry
\* on which findUserById, addOrUpdateUser and the broadcast copy work: no
\* handler ends by throwing out of its upsert and no pass throws at
\* users.slice().  (With an array loaded, a handler the bot of this
\* specification runs ends by a throw only when its reply throws.)
C14_StoreNeverBreaksRegistry ==
  /\ ~admin.threw
  /\ ~promo.threw
  /\ \A h \in Handlers : gate[h].last = "threw" => loaded = "array"

\* The objects of `users` a step has changed, and those it has added.
ChangedBy(us, after) == {i \in 1..Len(us) : after[i] # us[i]}

WithinCopy(q, us) ==
  /\ Len(q.usersCopy) <= Len(us)
  /\ q.usersCopy = [i \in 1..Len(q.usersCopy) |-> i]
  /\ q.pos <= Len(q.usersCopy)
  /\ \A i \in 1..Len(q.log) :
       /\ q.log[i].pos \in 1..Len(q.usersCopy)
       /\ q.log[i].user = us[q.log[i].pos].telegram_id
       /\ \A j \in (Len(q.usersCopy) + 1)..Len(us) :
            us[j].telegram_id # q.log[i].user

\* Over one step of pass p (q after it): a pass that starts copies all of
\* `users`, a pass in flight keeps its copy whatever `users` has become.
KeepsCopy(p, q, us) ==
  /\ (p.pc # "run" /\ q.pc = "run") =>
       q.usersCopy = [i \in 1..Len(us) |-> i]
  /\ p.pc = "run" => q.usersCopy = p.usersCopy
  /\ q.pc \in {"run", "done"} => WithinCopy(q, us)

\* C16: a pass works on the users `users` held when the pass started: an
\* upsert during the pass changes neither the users the pass processes nor
\* their order, and a user it adds gets no check and no send from this pass.
C16_PassKeepsSnapshot ==
  [][KeepsCopy(admin, admin', users') /\ KeepsCopy(promo, promo', users')]_vars

\* C16 witness: an admin pass that copied one user awaits its send to that
\* user while `users` has grown to two.
C16_Witness ==
  /\ admin.pc = "run" /\ admin.phase = "send" /\ admin.pos = 1
  /\ Len(admin.usersCopy) = 1 /\ Len(users) = 2

\* The record of pass p is, position after position from 1, the check of the
\* position followed by its send if the check returned true; the one call in
\* flight is the check of the next position or the send of the last checked.
OneAtATime(p) ==
  /\ \A i \in 1..Len(p.log) :
       IF p.log[i].what = "check"
       THEN IF i = 1 THEN p.log[i].pos = 1
            ELSE /\ p.log[i].pos = p.log[i - 1].pos + 1
                 /\ p.log[i - 1].what = "send" \/ ~p.log[i - 1].ok
       ELSE /\ i > 1
            /\ p.log[i - 1].what = "check" /\ p.log[i - 1].ok
            /\ p.log[i - 1].pos = p.log[i].pos
  /\ p.pc = "run" <=> p.phase \in {"member", "send"}
  /\ p.phase = "member" =>
       /\ p.pos = (IF p.log = <<>> THEN 1 ELSE p.log[Len(p.log)].pos + 1)
       /\ p.log # <<>> =>
            p.log[Len(p.log)].what = "send" \/ ~p.log[Len(p.log)].ok
  /\ p.phase = "send" =>
       /\ p.log # <<>>
       /\ p.log[Len(p.log)].what = "check" /\ p.log[Len(p.log)].ok
       /\ p.log[Len(p.log)].pos = p.pos

\* C17: a pass processes the users of its copy in the order of the copy and
\* one at a time: the check of user k+1 is called only after the check of user
\* k and, if made, the send to user k have been answered, so a pass has at
\* most one transport call in flight.
C17_OneAtATime == OneAtATime(admin) /\ OneAtATime(promo)

\* C17 witness: an admin pass over two users awaits the check of the second,
\* the send to the first having thrown.
C17_Witness ==
  /\ admin.pc = "run" /\ admin.phase = "member" /\ admin.pos = 2
  /\ Len(admin.log) = 2 /\ admin.log[2].what = "send" /\ ~admin.log[2].ok

\* C18: in one pass no telegram_id is sent to twice, a send that threw
\* included, whatever `users` the pass started from.
C18_OneSendPerId ==
  \A p \in {admin, promo} :
    /\ \A i, j \in SendsOf(p) : p.log[i].user = p.log[j].user => i = j
    /\ p.phase = "send" =>
         \A i \in SendsOf(p) : p.log[i].user # PassMessage(p).to

\* The texts of PROMO_MESSAGES.
PromoPool == {PROMO_MESSAGES[k] : k \in 1..Len(PROMO_MESSAGES)}

\* C19: a promo pass runs only if PROMO_INTERVAL_MINUTES is a number above 0
\* and ADMIN_TOKEN is not empty; every message a promo pass sends has
\* disable_notification set and one of the PROMO_MESSAGES as its text.
C19_PromoOnlyWhenArmed ==
  /\ promo.pc # "idle" =>
       /\ ~PROMO_INTERVAL_MINUTES.nan /\ PROMO_INTERVAL_MINUTES.n > 0
       /\ ADMIN_TOKEN # ""
  /\ \A i \in SendsOf(promo) :
       promo.log[i].msg.silent /\ promo.log[i].msg.text \in PromoPool
  /\ promo.phase = "send" =>
       PassMessage(promo).silent /\ PassMessage(promo).text \in PromoPool

\* C19 witness: a promo pass has sent the third text of the pool, silently.
C19_Witness ==
  /\ promo.pc = "done"
  /\ \E i \in SendsOf(promo) :
       /\ promo.log[i].ok /\ promo.log[i].msg.silent
       /\ promo.log[i].msg.text = PROMO_MESSAGES[3]

\* C20: once the process has exited on a signal, no transport call is left
\* unanswered: no pass awaits a check or a send and no handler awaits a lookup
\* or a reply.
C20_ExitAfterCallsEnd ==
  exited =>
    /\ admin.pc # "run" /\ promo.pc # "run"
    /\ \A h \in Handlers : gate[h].pc = "idle"

====
